---- MODULE Spec2Model ----
(***************************************************************************)
(* Model of the response normalisation pipeline of the Settings AI agent:  *)
(* the AgentResponse envelope, its factories and its rendered text         *)
(* (models.py), and the                                                    *)
(* YandexGPT client (yandex_gpt.py): prompt, completion call, JSON         *)
(* extraction from the model text, mapping of every outcome to an          *)
(* envelope, and the connection self-test.                                 *)
(*                                                                         *)
(* Conventions.                                                            *)
(*  - A Python string whose length or content matters is a sequence of     *)
(*    tokens (TLA+ strings).  A model text is a sequence over              *)
(*      "w"  a word of prose (no brace, no backtick, not JSON)             *)
(*      "s"  white space                                                   *)
(*      "J"  the opening fence tagged json                                 *)
(*      "F"  the bare fence (3 backticks)                                  *)
(*      "T"  an opening fence with another tag (python, text, ...)         *)
(*      "{" "}"  braces                                                    *)
(*      "n"  a JSON value that is not an object (a number, a list)         *)
(*      a member token: one "key": value pair of a JSON object, with its   *)
(*      separating comma; a brace pair nested in an object is the member   *)
(*      "data": {...};                                                     *)
(*      "D"  a member whose value nests lists deeper than the recursion    *)
(*      limit of the interpreter.                                          *)
(*  - An optional value is None (<<>>) or Some(v) (<<v>>).                 *)
(*  - A confidence is counted in hundredths: 0.9 is 90, 1.0 is 100.        *)
(*  - A call either returns an envelope or raises: an Outcome carries the  *)
(*    exception class name in exc ("" when the call returned).  The        *)
(*    extractor returns [exc, value], the rendering [exc, text] with the   *)
(*    text as the sequence of its sections.                                *)
(***************************************************************************)
EXTENDS Integers, Sequences, FiniteSets, TLC

VARIABLES
    now,      \* the wall clock read by datetime.now()
    pc,       \* "idle" | "done": position of the single caller
    call,     \* the operation called and its inputs
    result    \* the Outcome of that call

vars == <<now, pc, call, result>>

----------------------------------------------------------------------------
(* Bounds of the model *)

MaxClock == 2          \* the clock runs 1..MaxClock
MaxBody == 203         \* longest response body / error text, in characters

(* Program constants *)

ExcerptLen == 200      \* [:200] on response.text and str(e)
HTTP_OK == 200         \* response.status_code != 200
DefaultSuccess == 90   \* create_success confidence default 0.9
DefaultError == 100    \* create_error confidence 1.0
DefaultInfo == 80      \* create_info confidence 0.8
DefaultWarning == 70   \* create_warning confidence 0.7
FallbackConfidence == 95   \* confidence=0.95 of the fallback envelope
ProbeConfidence == 100     \* confidence=1.0 of test_connection
ConfMin == 0           \* Field(ge=0.0)
ConfMax == 100         \* Field(le=1.0)
PromptTimestamp == 0   \* the "timestamp" literal of the prompt's examples:
                       \* a moment before the clock starts
HighConfidence == 80   \* self.confidence > 0.8: the green marker
MediumConfidence == 50 \* self.confidence > 0.5: the yellow marker

----------------------------------------------------------------------------
(* Optional values and outcomes *)

None == <<>>
Some(v) == <<v>>

Min(a, b) == IF a < b THEN a ELSE b

\* a slice that is one character too long
Take_one_more(s, n) == SubSeq(s, 1, Min(Len(s), n + 1))

\* s[:n]
Take(s, n) == SubSeq(s, 1, Min(Len(s), n))

\* ran: the steps of generate_response that were executed on the way
Returned(env) == [exc |-> "", text |-> <<>>, env |-> Some(env), ran |-> {}]
Raised(name, text) == [exc |-> name, text |-> text, env |-> None, ran |-> {}]
Ran(out, steps) == [out EXCEPT !.ran = steps]

----------------------------------------------------------------------------
(* models.py: ResponseType and AgentResponse *)

ResponseType == {"success", "error", "info", "warning"}

Fields ==
    {"type", "message", "data", "actions", "confidence", "timestamp",
     "suggestions", "error_details"}

\* a keyword-argument mapping (or a parsed JSON object) that names no key
EmptyKw == [f \in Fields |-> None]

\* AgentResponse(**kw) at time t: pydantic validation, then the defaults.
\* Keys outside the fields cannot be written in a Kw; pydantic ignores them.
AgentResponse(kw, t) ==
    IF kw.type = None \/ kw.message = None
    THEN Raised("ValidationError", <<"Field required">>)
    ELSE IF kw.type[1] \notin ResponseType
    THEN Raised("ValidationError", <<"Input should be 'success', 'error', 'info' or 'warning'">>)
    ELSE IF kw.confidence # None
            /\ (kw.confidence[1] < ConfMin \/ kw.confidence[1] > ConfMax)
    THEN Raised("ValidationError", <<"Input should be in [0, 1]">>)
    ELSE Returned([type          |-> kw.type[1],
                   message       |-> kw.message[1],
                   data          |-> kw.data,
                   actions       |-> kw.actions,
                   confidence    |-> kw.confidence,
                   timestamp     |-> IF kw.timestamp = None THEN t
                                     ELSE kw.timestamp[1],
                   suggestions   |-> kw.suggestions,
                   error_details |-> kw.error_details])

\* Python's binding of keyword arguments to a signature: a keyword the
\* signature does not name, or a required parameter left out, is a TypeError.
BadCall(kw, params, required) ==
    \/ \E k \in Fields \ params : kw[k] # None
    \/ \E k \in required : kw[k] = None

create_success(kw, t) ==
    IF BadCall(kw, {"message", "data", "actions", "confidence"}, {"message"})
    THEN Raised("TypeError", <<"create_success() got an unexpected keyword argument">>)
    ELSE AgentResponse([EmptyKw EXCEPT !.type = Some("success"),
                                       !.message = kw.message,
                                       !.data = kw.data,
                                       !.actions = kw.actions,
                                       !.confidence =
                                           IF kw.confidence = None
                                           THEN Some(DefaultSuccess)
                                           ELSE kw.confidence], t)

create_error(kw, t) ==
    IF BadCall(kw, {"message", "error_details", "suggestions"}, {"message"})
    THEN Raised("TypeError", <<"create_error() got an unexpected keyword argument">>)
    ELSE AgentResponse([EmptyKw EXCEPT !.type = Some("error"),
                                       !.message = kw.message,
                                       !.error_details = kw.error_details,
                                       !.suggestions = kw.suggestions,
                                       !.confidence = Some(DefaultError)], t)

create_info(kw, t) ==
    IF BadCall(kw, {"message", "data", "actions"}, {"message"})
    THEN Raised("TypeError", <<"create_info() got an unexpected keyword argument 'confidence'">>)
    ELSE AgentResponse([EmptyKw EXCEPT !.type = Some("info"),
                                       !.message = kw.message,
                                       !.data = kw.data,
                                       !.actions = kw.actions,
                                       !.confidence = Some(DefaultInfo)], t)

create_warning(kw, t) ==
    IF BadCall(kw, {"message", "data", "actions"}, {"message"})
    THEN Raised("TypeError", <<"create_warning() got an unexpected keyword argument">>)
    ELSE AgentResponse([EmptyKw EXCEPT !.type = Some("warning"),
                                       !.message = kw.message,
                                       !.data = kw.data,
                                       !.actions = kw.actions,
                                       !.confidence = Some(DefaultWarning)], t)

----------------------------------------------------------------------------
(* models.py: to_formatted_text *)

\* The rendered text is the sequence of its blocks, each the name of its
\* section and its lines.  A value of the data mapping is a JSON value:
\* [json |-> "null" | "string" | "number" | "array", items |-> its elements].
JsonNull == [json |-> "null", items |-> <<>>]
JsonString(x) == [json |-> "string", items |-> <<x>>]
JsonNumber(x) == [json |-> "number", items |-> <<x>>]
JsonArray(xs) == [json |-> "array", items |-> xs]

\* bool(v) of a value of the data mapping
Truthy(v) ==
    CASE v.json = "null"   -> FALSE
      [] v.json = "number" -> v.items[1] # 0
      [] OTHER             -> v.items # <<>>

Block(section, lines) == [section |-> section, lines |-> lines]

\* if self.data: a mapping that is there and holds a key
HasData(e) == e.data # None /\ DOMAIN e.data[1] # {}

\* "key" in self.data, under if self.data
InData(e, key) == HasData(e) /\ key \in DOMAIN e.data[1]

\* f"{emoji} {self.message}"
HeaderBlock(e) == <<Block("message", <<e.type, e.message>>)>>

\* a line for a key of data, whatever its value
DataLine(e, key) ==
    IF InData(e, key) THEN <<Block(key, <<e.data[1][key]>>)>> ELSE <<>>

\* if "steps" in self.data and self.data["steps"]
HasSteps(e) == InData(e, "steps") /\ Truthy(e.data[1]["steps"])

\* enumerate(self.data["steps"], 1) raises on a value that is not iterable
StepsRaise(e) == HasSteps(e) /\ e.data[1]["steps"].json = "number"

Numbered(xs) == [i \in 1..Len(xs) |-> <<i, xs[i]>>]

StepsBlock(e) ==
    IF HasSteps(e) THEN <<Block("steps", Numbered(e.data[1]["steps"].items))>> ELSE <<>>

\* if self.actions, if self.suggestions: a bulleted list
ListBlock(section, field) ==
    IF field # None /\ field[1] # <<>> THEN <<Block(section, field[1])>> ELSE <<>>

\* if self.type == ResponseType.ERROR and self.error_details
DetailsBlock(e) ==
    IF e.type = "error" /\ e.error_details # None /\ e.error_details[1] # <<>>
    THEN <<Block("error_details", <<e.error_details[1]>>)>>
    ELSE <<>>

ConfidenceMarker(c) ==
    IF c > HighConfidence THEN "green" ELSE IF c > MediumConfidence THEN "yellow" ELSE "red"

\* if self.confidence is not None
ConfidenceBlock(e) ==
    IF e.confidence # None
    THEN <<Block("confidence", <<ConfidenceMarker(e.confidence[1]), e.confidence[1]>>)>>
    ELSE <<>>

TimestampBlock(e) == <<Block("timestamp", <<e.timestamp>>)>>

Rendered(blocks) == [exc |-> "", text |-> blocks, env |-> None, ran |-> {}]

to_formatted_text(e) ==
    IF StepsRaise(e)
    THEN Raised("TypeError", <<"object is not iterable">>)
    ELSE Rendered(HeaderBlock(e)
                  \o DataLine(e, "category")
                  \o StepsBlock(e)
                  \o DataLine(e, "solution")
                  \o DataLine(e, "additional_info")
                  \o ListBlock("actions", e.actions)
                  \o ListBlock("suggestions", e.suggestions)
                  \o DetailsBlock(e)
                  \o ConfidenceBlock(e)
                  \o TimestampBlock(e))

----------------------------------------------------------------------------
(* Model text: tokens, str.strip and json.loads *)

\* one "key": value pair of a JSON object written by the model
Members ==
    {"T_success", "T_info", "T_error", "T_warning", "T_bogus",
     "M_ok", "M_hi", "C_90", "C_150", "TS", "ED"}

\* the error_details text a model may write into its JSON
ModelErrorDetails == <<"x">>

\* the mapping d after reading the pair m (a repeated key keeps the last)
SetMember(d, m) ==
    CASE m = "T_success" -> [d EXCEPT !.type = Some("success")]
      [] m = "T_info"    -> [d EXCEPT !.type = Some("info")]
      [] m = "T_error"   -> [d EXCEPT !.type = Some("error")]
      [] m = "T_warning" -> [d EXCEPT !.type = Some("warning")]
      [] m = "T_bogus"   -> [d EXCEPT !.type = Some("bogus")]
      [] m = "M_ok"      -> [d EXCEPT !.message = Some("ok")]
      [] m = "M_hi"      -> [d EXCEPT !.message = Some("hi")]
      [] m = "C_90"      -> [d EXCEPT !.confidence = Some(90)]
      [] m = "C_150"     -> [d EXCEPT !.confidence = Some(150)]
      [] m = "TS"        -> [d EXCEPT !.timestamp = Some(PromptTimestamp)]
      [] m = "ED"        -> [d EXCEPT !.error_details = Some(ModelErrorDetails)]
      [] OTHER           -> d

RECURSIVE lstrip(_)
lstrip(t) == IF t # <<>> /\ Head(t) = "s" THEN lstrip(Tail(t)) ELSE t

RECURSIVE rstrip(_)
rstrip(t) ==
    IF t # <<>> /\ t[Len(t)] = "s" THEN rstrip(SubSeq(t, 1, Len(t) - 1)) ELSE t

\* str.strip()
strip(t) == rstrip(lstrip(t))

JSONDecodeError ==
    [ok |-> FALSE, isdict |-> FALSE, dict |-> EmptyKw, next |-> 0, err |-> "JSONDecodeError"]

\* raised by the scanner when it descends into a value nested too deep
RecursionError ==
    [ok |-> FALSE, isdict |-> FALSE, dict |-> EmptyKw, next |-> 0, err |-> "RecursionError"]

\* the members of an object from position i on, up to its closing brace;
\* next is the position after that brace
RECURSIVE ParseMembers(_, _, _)
ParseMembers(t, i, acc) ==
    IF i > Len(t) THEN JSONDecodeError
    ELSE IF t[i] = "s" THEN ParseMembers(t, i + 1, acc)
    ELSE IF t[i] = "}"
    THEN [ok |-> TRUE, isdict |-> TRUE, dict |-> acc, next |-> i + 1, err |-> ""]
    ELSE IF t[i] \in Members THEN ParseMembers(t, i + 1, SetMember(acc, t[i]))
    ELSE IF t[i] = "D" THEN RecursionError
    ELSE IF t[i] = "{"
    THEN LET inner == ParseMembers(t, i + 1, EmptyKw) IN
         IF inner.ok
         THEN ParseMembers(t, inner.next, [acc EXCEPT !.data = Some(inner.dict)])
         ELSE inner
    ELSE JSONDecodeError

\* json.loads(t): one JSON value with white space around it, nothing else
json_loads(t) ==
    LET u == strip(t) IN
    IF u = <<>> THEN JSONDecodeError
    ELSE IF u = <<"n">>
    THEN [ok |-> TRUE, isdict |-> FALSE, dict |-> EmptyKw, next |-> 2, err |-> ""]
    ELSE IF u[1] = "{"
    THEN LET r == ParseMembers(u, 2, EmptyKw) IN
         IF r.ok /\ r.next # Len(u) + 1 THEN JSONDecodeError ELSE r
    ELSE JSONDecodeError

----------------------------------------------------------------------------
(* yandex_gpt.py: _extract_json_from_text *)

\* \s* from position i: the first position that holds no white space
RECURSIVE SkipSpace(_, _)
SkipSpace(t, i) ==
    IF i <= Len(t) /\ t[i] = "s" THEN SkipSpace(t, i + 1) ELSE i

\* three backticks are read at a bare fence and at the head of a tagged fence
ClosesFence(t, c) == c <= Len(t) /\ t[c] \in {"F", "J", "T"}

\* the group without the fence that must follow it: every closing brace
GroupEnds_any_brace(t, j) == {k \in (j + 1)..Len(t) : t[k] = "}"}

\* the group (\{.*?\}) with its brace at j, then \s* and a fence: the closing
\* braces that white space and a fence follow
GroupEnds(t, j) ==
    {k \in (j + 1)..Len(t) : t[k] = "}" /\ ClosesFence(t, SkipSpace(t, k + 1))}

SetMin(S) == CHOOSE x \in S : \A y \in S : x <= y
SetMax(S) == CHOOSE x \in S : \A y \in S : x >= y

\* re.findall of a fenced pattern (patterns 1 and 2) from position i on:
\* the groups of the non-overlapping matches, left to right
\* the groups of the non-overlapping matches, left to right; openers are the
\* fences the head of the pattern matches
RECURSIVE FencedGroups(_, _, _)
FencedGroups(t, i, openers) ==
    IF i > Len(t) THEN <<>>
    ELSE LET j == SkipSpace(t, i + 1) IN
         IF t[i] \in openers /\ j <= Len(t) /\ t[j] = "{" /\ GroupEnds(t, j) # {}
         THEN LET k == SetMin(GroupEnds(t, j)) IN
              <<SubSeq(t, j, k)>> \o FencedGroups(t, SkipSpace(t, k + 1) + 1, openers)
         ELSE FencedGroups(t, i + 1, openers)

\* re.findall of the greedy brace pattern: the first brace to the last one
BraceSpan(t) ==
    LET opens  == {i \in 1..Len(t) : t[i] = "{"}
        closes == {i \in 1..Len(t) : t[i] = "}"}
    IN  IF opens # {} /\ closes # {} /\ SetMin(opens) < SetMax(closes)
        THEN <<SubSeq(t, SetMin(opens), SetMax(closes))>>
        ELSE <<>>

\* pattern 1 opens on the fence tagged json
JsonFence == {"J"}

\* pattern 2 opens on three backticks that white space or a brace follows:
\* the bare fence, never a tagged one
BareFence == {"F"}

\* the matches of the three patterns, in the order the loops visit them
Candidates(t) ==
    FencedGroups(t, 1, JsonFence) \o FencedGroups(t, 1, BareFence) \o BraceSpan(t)

Found(value) == [exc |-> "", value |-> value]
Escapes(name) == [exc |-> name, value |-> None]

\* try: return json.loads(match.strip()), except json.JSONDecodeError: continue
TryCandidate(r, rest) ==
    IF r.ok THEN Found(Some(r.dict))
    ELSE IF r.err = "JSONDecodeError" THEN rest
    ELSE Escapes(r.err)

\* the loops: the first candidate json.loads accepts, else None; an
\* exception that is no JSONDecodeError leaves the function
RECURSIVE FirstParsed(_)
FirstParsed(ms) ==
    IF ms = <<>> THEN Found(None)
    ELSE TryCandidate(json_loads(strip(Head(ms))), FirstParsed(Tail(ms)))

_extract_json_from_text(t) == FirstParsed(Candidates(t))

----------------------------------------------------------------------------
(* yandex_gpt.py: the request *)

PromptHead == <<"instructions, schema and examples", "REQUEST: ">>
PromptTail == <<"ANSWER:">>

_create_prompt(user_message) == PromptHead \o user_message \o PromptTail

RequestPayload(user_message) ==
    [modelUri |-> "gpt://folder/yandexgpt",
     stream   |-> FALSE,
     messages |-> <<[role |-> "user", text |-> _create_prompt(user_message)]>>]

----------------------------------------------------------------------------
(* yandex_gpt.py: the reply of the endpoint *)

\* f"{response.status_code}"
StatusText(n) ==
    CASE n = 200 -> "200"
      [] n = 201 -> "201"
      [] n = 404 -> "404"
      [] n = 500 -> "500"
      [] OTHER   -> "?"

\* result.get("result", {}).get("alternatives", [{}])[0]
\*       .get("message", {}).get("text", "")
\* over a payload whose segments are "absent", "null" or present
\* ("dict", "list", "empty" for the empty list, "str"); reply is the value
\* read: None for null, Some(text) for a string.
ReadReply(p) ==
    IF ~p.is_json
    THEN [exc |-> "JSONDecodeError", text |-> <<"Expecting value">>, reply |-> None]
    ELSE IF p.result = "null"
    THEN [exc |-> "AttributeError", text |-> <<"'NoneType' object has no attribute 'get'">>, reply |-> None]
    ELSE IF p.result = "absent"
    THEN [exc |-> "", text |-> <<>>, reply |-> Some(<<>>)]
    ELSE IF p.alternatives = "null"
    THEN [exc |-> "TypeError", text |-> <<"'NoneType' object is not subscriptable">>, reply |-> None]
    ELSE IF p.alternatives = "empty"
    THEN [exc |-> "IndexError", text |-> <<"list index out of range">>, reply |-> None]
    ELSE IF p.alternatives = "absent"
    THEN [exc |-> "", text |-> <<>>, reply |-> Some(<<>>)]
    ELSE IF p.message = "null"
    THEN [exc |-> "AttributeError", text |-> <<"'NoneType' object has no attribute 'get'">>, reply |-> None]
    ELSE IF p.message = "absent"
    THEN [exc |-> "", text |-> <<>>, reply |-> Some(<<>>)]
    ELSE IF p.text = "absent"
    THEN [exc |-> "", text |-> <<>>, reply |-> Some(<<>>)]
    ELSE IF p.text = "null"
    THEN [exc |-> "", text |-> <<>>, reply |-> None]
    ELSE [exc |-> "", text |-> <<>>, reply |-> Some(p.value)]

----------------------------------------------------------------------------
(* yandex_gpt.py: generate_response *)

FallbackData ==
    [category        |-> "unknown",
     solution        |-> "a more detailed description is needed",
     steps           |-> <<"describe the problem in detail", "give symptoms and context">>,
     additional_info |-> "more specific information is required"]

FallbackMessage == "the request holds no information to solve the problem"

\* the call written twice, in the except branch and in the else branch
FallbackInfo(t) ==
    create_info([EmptyKw EXCEPT !.message = Some(FallbackMessage),
                                !.data = Some(FallbackData),
                                !.actions = Some(<<"refine the request", "describe the problem in detail">>),
                                !.confidence = Some(FallbackConfidence)], t)

\* return AgentResponse(**extracted_json), except Exception: the fallback
OnBuilt(built, t) ==
    IF built.exc = ""
    THEN Ran(built, {"loads", "extract"})
    ELSE Ran(FallbackInfo(t), {"loads", "extract"})

\* if extracted_json: ... else: the fallback
OnExtracted(extracted, t) ==
    IF extracted.exc # ""
    THEN Ran(Raised(extracted.exc, <<"maximum recursion depth exceeded">>), {"loads", "extract"})
    ELSE IF extracted.value # None /\ extracted.value[1] # EmptyKw
    THEN OnBuilt(AgentResponse(extracted.value[1], t), t)
    ELSE Ran(FallbackInfo(t), {"loads", "extract"})

\* return AgentResponse(**parsed_data), except json.JSONDecodeError: extract
OnParsed(parsed_data, ai_response, t) ==
    IF parsed_data.ok
    THEN IF parsed_data.isdict
         THEN Ran(AgentResponse(parsed_data.dict, t), {"loads"})
         ELSE Ran(Raised("TypeError", <<"argument after ** must be a mapping">>), {"loads"})
    ELSE IF parsed_data.err # "JSONDecodeError"
    THEN Ran(Raised(parsed_data.err, <<"maximum recursion depth exceeded">>), {"loads"})
    ELSE OnExtracted(_extract_json_from_text(ai_response), t)

\* the inner try statement and its handler, on the model text ai_response
ParseReply(ai_response, t) ==
    OnParsed(json_loads(strip(ai_response)), ai_response, t)

AlsoRan(out, steps) == Ran(out, out.ran \cup steps)

\* the model text read from the payload, then the inner try statement
OnPayload(read, t) ==
    IF read.exc # ""
    THEN Ran(Raised(read.exc, read.text), {"post", "json"})
    ELSE IF read.reply = None
    THEN Ran(Raised("AttributeError", <<"'NoneType' object has no attribute 'strip'">>),
             {"post", "json"})
    ELSE AlsoRan(ParseReply(read.reply[1], t), {"post", "json"})

\* the body of the outer try statement
TryBody(user_message, net, t) ==
    IF net.kind = "timeout"
    THEN Ran(Raised("ReadTimeout", <<"Read timed out.">>), {"post"})
    ELSE IF net.kind = "connect_timeout"
    THEN Ran(Raised("ConnectTimeout", net.err), {"post"})
    ELSE IF net.kind = "connection_error"
    THEN Ran(Raised("ConnectionError", net.err), {"post"})
    ELSE IF net.kind = "exception"
    THEN Ran(Raised("Exception", net.err), {"post"})
    ELSE IF net.status # HTTP_OK
    THEN Ran(create_error(
                 [EmptyKw EXCEPT !.message = Some("YandexGPT API error"),
                                 !.error_details =
                                     Some(<<"HTTP ", StatusText(net.status), ": ">>
                                          \o Take(net.body, ExcerptLen)),
                                 !.suggestions = Some(<<"check the internet connection", "try later">>)],
                 t), {"post"})
    ELSE OnPayload(ReadReply(net.payload), t)

\* requests.exceptions: ReadTimeout is a Timeout; ConnectTimeout is both a
\* ConnectionError and a Timeout
IsTimeout(exc) == exc \in {"Timeout", "ReadTimeout", "ConnectTimeout"}
IsConnectionError(exc) == exc \in {"ConnectionError", "ConnectTimeout"}

OnTimeout(r, t) ==
    Ran(create_error(
            [EmptyKw EXCEPT !.message = Some("timed out waiting for YandexGPT"),
                            !.error_details = Some(<<"Timeout while calling the API">>),
                            !.suggestions = Some(<<"try again", "check the internet connection">>)],
            t), r.ran)

OnConnectionError(r, t) ==
    Ran(create_error(
            [EmptyKw EXCEPT !.message = Some("connection to YandexGPT failed"),
                            !.error_details = Some(Take(r.text, ExcerptLen)),
                            !.suggestions = Some(<<"check the internet connection", "try later">>)],
            t), r.ran)

OnException(r, t) ==
    Ran(create_error(
            [EmptyKw EXCEPT !.message = Some("unexpected error in YandexGPT"),
                            !.error_details = Some(Take(r.text, ExcerptLen)),
                            !.suggestions = Some(<<"restart the bot", "contact the administrator">>)],
            t), r.ran)

\* the handlers without the last clause, except Exception
ExceptClauses_no_catch_all(r, t) ==
    IF r.exc = "" THEN r
    ELSE IF IsTimeout(r.exc) THEN OnTimeout(r, t)
    ELSE IF IsConnectionError(r.exc) THEN OnConnectionError(r, t)
    ELSE r

\* the handlers without the clause for ConnectionError
ExceptClauses_no_connection_clause(r, t) ==
    IF r.exc = "" THEN r
    ELSE IF IsTimeout(r.exc) THEN OnTimeout(r, t)
    ELSE OnException(r, t)

\* the three except clauses, in their order, on the outcome r of the body
ExceptClauses(r, t) ==
    IF r.exc = "" THEN r
    ELSE IF IsTimeout(r.exc) THEN OnTimeout(r, t)
    ELSE IF IsConnectionError(r.exc) THEN OnConnectionError(r, t)
    ELSE OnException(r, t)

generate_response(user_message, net, t) ==
    ExceptClauses(TryBody(user_message, net, t), t)

----------------------------------------------------------------------------
(* yandex_gpt.py: test_connection *)

ProbeMessage == <<"w", "w">>

OnProbeException(test_response, t) ==
    Ran(create_error(
            [EmptyKw EXCEPT !.message = Some("error while testing the connection"),
                            !.error_details = Some(Take(test_response.text, ExcerptLen)),
                            !.suggestions = Some(<<"check the API settings", "check the internet connection">>)],
            t), test_response.ran)

ProbeSuccess(test_response, t) ==
    Ran(create_success(
            [EmptyKw EXCEPT !.message = Some("the connection to YandexGPT works"),
                            !.confidence = Some(ProbeConfidence)],
            t), test_response.ran)

\* the test written against SUCCESS instead of ERROR
ProbeVerdict_unless_success(test_response, t) ==
    IF test_response.exc # "" THEN OnProbeException(test_response, t)
    ELSE IF test_response.env[1].type # "success" THEN test_response
    ELSE ProbeSuccess(test_response, t)

\* the body of test_connection on the outcome of its generate_response call
ProbeVerdict(test_response, t) ==
    IF test_response.exc # "" THEN OnProbeException(test_response, t)
    ELSE IF test_response.env[1].type = "error" THEN test_response
    ELSE ProbeSuccess(test_response, t)

test_connection(net, t) ==
    ProbeVerdict(generate_response(ProbeMessage, net, t), t)

----------------------------------------------------------------------------
(* Inputs *)

\* a text of n characters
Chars == <<"a", "b", "c">>
StrOfLen(n) == [i \in 1..n |-> Chars[(i % 3) + 1]]

ServerError == <<"s", "e", "r", "v", "e", "r", " ", "e", "r", "r", "o", "r">>

\* response bodies and exception texts: empty, short, around the excerpt length
LongTexts ==
    {StrOfLen(n) : n \in {0, 1, ExcerptLen - 1, ExcerptLen, ExcerptLen + 1, MaxBody}}
        \cup {ServerError}

UserMessages == {<<>>, <<"w", "{", "}">>}

\* JSON objects a model may write: each member present or not, in one order
Objects ==
    {<<"{">> \o ty \o msg \o data \o conf \o ts \o ed \o <<"}">> :
        ty   \in {<<>>, <<"T_success">>, <<"T_info">>, <<"T_error">>,
                  <<"T_warning">>, <<"T_bogus">>},
        msg  \in {<<>>, <<"M_ok">>, <<"M_hi">>},
        data \in {<<>>, <<"{", "M_ok", "}">>},
        conf \in {<<>>, <<"C_90">>, <<"C_150">>},
        ts   \in {<<>>, <<"TS">>},
        ed   \in {<<>>, <<"ED">>}}

\* an object alone, in white space, in prose, in fences of either tag, after
\* an unparseable fenced block, in an unclosed fence, and twice in a row
Wrapped(o) ==
    { o,
      <<"s">> \o o \o <<"s">>,
      <<"w">> \o o \o <<"w">>,
      <<"J">> \o o \o <<"F">>,
      <<"w", "J", "s">> \o o \o <<"s", "F", "w">>,
      <<"w", "F", "s">> \o o \o <<"s", "F", "w">>,
      <<"J">> \o o \o <<"J">>,
      <<"w", "J">> \o o,
      <<"J", "{", "w", "}", "F", "w", "J">> \o o \o <<"F">>,
      <<"w", "{", "w", "J">> \o o \o <<"F", "w">>,
      o \o o }

\* texts that hold no JSON object
Prose ==
    { <<>>, <<"s">>, <<"w">>, <<"w", "s", "w">>, <<"n">>, <<"s", "n", "s">>,
      <<"n", "n">>, <<"{">>, <<"}", "w", "{">>, <<"{", "w", "}">>,
      <<"J", "w", "F">>, <<"J", "{", "w", "}", "F">>, <<"w", "{", "}", "w">> }

\* replies with a fence of another tag or with a value nested too deep
TaggedOrDeep ==
    { <<"T", "{", "T_info", "M_hi", "}", "F">>,
      <<"T", "{", "T_info", "M_hi", "}", "F", "w", "}">>,
      <<"J", "{", "T_info", "M_hi", "}", "T">>,
      <<"{", "D", "}">>,
      <<"w", "{", "D", "}">>,
      <<"w", "J", "{", "T_info", "M_hi", "}", "F", "{", "D", "}">>,
      <<"w", "{", "w", "D", "}">> }

ModelTexts == Prose \cup TaggedOrDeep \cup UNION {Wrapped(o) : o \in Objects}

\* what stands between two fences: an object, braces around prose, an
\* object whose value nests too deep
Bodies ==
    { <<"{", "T_info", "M_ok", "}">>, <<"{", "T_success", "M_hi", "}">>,
      <<"{", "w", "}">>, <<"{", "D", "}">> }

\* a body with a fence or nothing on either side
Blocks ==
    {open \o body \o close :
        open  \in {<<>>, <<"J">>, <<"F">>, <<"T">>},
        body  \in Bodies,
        close \in {<<>>, <<"J">>, <<"F">>, <<"T">>}}

\* the arguments of the extractor: the replies, and one or two blocks in
\* prose, with or without a closing brace at the end
ExtractTexts ==
    ModelTexts
        \cup {<<"w">> \o b \o tail : b \in Blocks, tail \in {<<>>, <<"w", "}">>}}
        \cup {b1 \o <<"w">> \o b2 \o tail :
                b1 \in Blocks, b2 \in Blocks, tail \in {<<>>, <<"w", "}">>}}

FullPayload(text) ==
    [is_json |-> TRUE, result |-> "dict", alternatives |-> "list",
     message |-> "dict", text |-> "str", value |-> text]

\* payloads with a segment of the path missing, null or empty
BrokenPayloads ==
    LET full == FullPayload(<<>>) IN
    { [full EXCEPT !.is_json = FALSE],
      [full EXCEPT !.result = "absent"], [full EXCEPT !.result = "null"],
      [full EXCEPT !.alternatives = "absent"], [full EXCEPT !.alternatives = "null"],
      [full EXCEPT !.alternatives = "empty"],
      [full EXCEPT !.message = "absent"], [full EXCEPT !.message = "null"],
      [full EXCEPT !.text = "absent"], [full EXCEPT !.text = "null"] }

Payloads == BrokenPayloads \cup {FullPayload(x) : x \in ModelTexts}

NoPayload == FullPayload(<<>>)

NetOutcomes ==
    {[kind |-> "timeout", status |-> 0, body |-> <<>>, payload |-> NoPayload, err |-> <<>>]}
    \cup {[kind |-> k, status |-> 0, body |-> <<>>, payload |-> NoPayload, err |-> e] :
            k \in {"connect_timeout", "connection_error", "exception"}, e \in LongTexts}
    \cup {[kind |-> "http", status |-> st, body |-> b, payload |-> NoPayload, err |-> <<>>] :
            st \in {201, 404, 500}, b \in LongTexts}
    \cup {[kind |-> "http", status |-> HTTP_OK, body |-> <<>>, payload |-> p, err |-> <<>>] :
            p \in Payloads}

\* keyword arguments a caller may hand to a factory
FactoryKws ==
    {[EmptyKw EXCEPT !.message = m, !.data = d, !.actions = a, !.confidence = c,
                     !.error_details = e, !.suggestions = sg] :
        m  \in {None, Some("ok"), Some("hi")},
        d  \in {None, Some(FallbackData)},
        a  \in {None, Some(<<"act">>)},
        c  \in {None, Some(0), Some(50), Some(95), Some(100), Some(150)},
        e  \in {None, Some(<<"x">>)},
        sg \in {None, Some(<<"try again">>)}}

\* data mappings: each conventional key there or not, steps of every kind
DataKeys == {"category", "steps", "solution", "additional_info"}

StepsValues ==
    {JsonNull, JsonArray(<<>>), JsonArray(<<"first", "second">>), JsonNumber(0), JsonNumber(5)}

DataMaps ==
    {[k \in keys |-> IF k = "steps" THEN st ELSE JsonString(k)] :
        keys \in SUBSET DataKeys, st \in StepsValues}

\* the envelopes handed to the rendering: built by the constructor
RenderKws ==
    {[EmptyKw EXCEPT !.type = Some(ty), !.message = Some("ok"), !.data = d,
                     !.actions = a, !.suggestions = sg, !.error_details = ed,
                     !.confidence = c] :
        ty \in {"error", "success"},
        d  \in {None} \cup {Some(m) : m \in DataMaps},
        a  \in {None, Some(<<>>), Some(<<"act">>)},
        sg \in {None, Some(<<"try again">>)},
        ed \in {None, Some(<<>>), Some(<<"x">>)},
        c  \in {None, Some(0), Some(MediumConfidence), Some(HighConfidence),
                Some(HighConfidence + 1)}}

----------------------------------------------------------------------------
(* The caller *)

NoNet == [kind |-> "none", status |-> 0, body |-> <<>>, payload |-> NoPayload, err |-> <<>>]
NoOutcome == Raised("none", <<>>)

Call(op, user_message, net, kw, inner) ==
    [op |-> op, user_message |-> user_message, net |-> net, kw |-> kw, inner |-> inner]

Init ==
    /\ now = 1
    /\ pc = "idle"
    /\ call = Call("none", <<>>, NoNet, EmptyKw, NoOutcome)
    /\ result = NoOutcome

Tick ==
    /\ pc = "idle"
    /\ now < MaxClock
    /\ now' = now + 1
    /\ UNCHANGED <<pc, call, result>>

GenerateResponse ==
    /\ pc = "idle"
    /\ \E um \in UserMessages, net \in NetOutcomes :
        /\ call' = Call("generate_response", um, net, EmptyKw, NoOutcome)
        /\ result' = generate_response(um, net, now)
    /\ pc' = "done"
    /\ UNCHANGED now

TestConnection ==
    /\ pc = "idle"
    /\ \E net \in NetOutcomes :
        /\ call' = Call("test_connection", ProbeMessage, net, EmptyKw,
                        generate_response(ProbeMessage, net, now))
        /\ result' = test_connection(net, now)
    /\ pc' = "done"
    /\ UNCHANGED now

CreateSuccess ==
    /\ pc = "idle"
    /\ \E kw \in FactoryKws :
        /\ call' = Call("create_success", <<>>, NoNet, kw, NoOutcome)
        /\ result' = create_success(kw, now)
    /\ pc' = "done"
    /\ UNCHANGED now

CreateError ==
    /\ pc = "idle"
    /\ \E kw \in FactoryKws :
        /\ call' = Call("create_error", <<>>, NoNet, kw, NoOutcome)
        /\ result' = create_error(kw, now)
    /\ pc' = "done"
    /\ UNCHANGED now

CreateInfo ==
    /\ pc = "idle"
    /\ \E kw \in FactoryKws :
        /\ call' = Call("create_info", <<>>, NoNet, kw, NoOutcome)
        /\ result' = create_info(kw, now)
    /\ pc' = "done"
    /\ UNCHANGED now

CreateWarning ==
    /\ pc = "idle"
    /\ \E kw \in FactoryKws :
        /\ call' = Call("create_warning", <<>>, NoNet, kw, NoOutcome)
        /\ result' = create_warning(kw, now)
    /\ pc' = "done"
    /\ UNCHANGED now

\* an envelope is built and rendered
ToFormattedText ==
    /\ pc = "idle"
    /\ \E kw \in RenderKws :
        /\ call' = [op |-> "to_formatted_text", user_message |-> <<>>,
                    net |-> NoNet, kw |-> kw, inner |-> AgentResponse(kw, now)]
        /\ result' = to_formatted_text(AgentResponse(kw, now).env[1])
    /\ pc' = "done"
    /\ UNCHANGED now

\* _extract_json_from_text(text): what it returns or the exception it raises
ExtractJson ==
    /\ pc = "idle"
    /\ \E text \in ExtractTexts :
        /\ call' = [op |-> "_extract_json_from_text", user_message |-> <<>>,
                    net |-> NoNet, kw |-> EmptyKw, inner |-> NoOutcome, text |-> text]
        /\ result' = _extract_json_from_text(text)
    /\ pc' = "done"
    /\ UNCHANGED now

\* the caller takes the result and is ready for the next call
Return ==
    /\ pc = "done"
    /\ pc' = "idle"
    /\ call' = Call("none", <<>>, NoNet, EmptyKw, NoOutcome)
    /\ result' = NoOutcome
    /\ UNCHANGED now

Next ==
    \/ Tick
    \/ GenerateResponse
    \/ TestConnection
    \/ CreateSuccess
    \/ CreateError
    \/ CreateInfo
    \/ CreateWarning
    \/ ToFormattedText
    \/ ExtractJson
    \/ Return

Spec == Init /\ [][Next]_vars

----------------------------------------------------------------------------
(* Vocabulary of the properties *)

Range(q) == {q[i] : i \in 1..Len(q)}

Done(op) == pc = "done" /\ call.op = op

\* the endpoint answered with status 200 and a payload that holds a model text
Answered ==
    /\ call.net.kind = "http"
    /\ call.net.status = HTTP_OK
    /\ \E x \in ModelTexts : call.net.payload = FullPayload(x)

ModelText == call.net.payload.value

Env == result.env[1]

\* the mapping is accepted by the envelope schema
SchemaValid(d) == AgentResponse(d, now).exc = ""

\* the text is JSON whose value is a schema-valid object, or is not JSON and
\* the extractor finds a schema-valid object in it
YieldsEnvelope(x) ==
    LET whole == json_loads(strip(x)) IN
    IF whole.ok THEN whole.isdict /\ SchemaValid(whole.dict)
    ELSE LET found == _extract_json_from_text(x) IN
         /\ whole.err = "JSONDecodeError"
         /\ found.exc = ""
         /\ found.value # None
         /\ SchemaValid(found.value[1])

IsFallback(e) ==
    /\ e.type = "info"
    /\ e.message = FallbackMessage
    /\ e.confidence = Some(FallbackConfidence)
    /\ e.data = Some(FallbackData)
    /\ e.data[1].category = "unknown"
    /\ e.error_details = None
    /\ e.suggestions = None

----------------------------------------------------------------------------
(* C1: generate_response always returns an envelope *)

\* C1: whatever the user text and whatever the network call did (timeout,
\* connection error, another exception, any status, any payload, any model
\* text), generate_response ends by returning an envelope of one of the four
\* kinds; no exception leaves it.
C1_AlwaysEnvelope ==
    Done("generate_response") =>
        /\ result.exc = ""
        /\ result.env # None
        /\ Env.type \in ResponseType

\* an exception was raised inside the call (here while reading a payload
\* with an empty alternatives list) and an envelope came back
C1_Witness ==
    /\ Done("generate_response")
    /\ call.net.kind = "http" /\ call.net.status = HTTP_OK
    /\ call.net.payload.alternatives = "empty"
    /\ result.exc = ""
    /\ Env.type = "error"

----------------------------------------------------------------------------
(* C2: the fallback envelope for prose *)

\* C2: on status 200 with a model text that is not JSON and holds no
\* extractable JSON object, generate_response returns the fixed fallback
\* envelope (kind info, confidence 0.95, data.category "unknown"), the same
\* for every such text.
C2_ProseGivesFallback ==
    (/\ Done("generate_response")
     /\ Answered
     /\ "w" \in Range(ModelText)
     /\ ~json_loads(strip(ModelText)).ok
     /\ _extract_json_from_text(ModelText) = Found(None))
        => (result.exc = "" /\ IsFallback(Env))

----------------------------------------------------------------------------
(* C3: no error envelope for a reply that is not a valid envelope *)

\* C3: on status 200, a model text that does not yield a schema-valid
\* envelope (JSON that fails construction, a non-object, an extracted object
\* that fails validation, or nothing extractable) gives the info fallback
\* envelope and never an envelope of kind error.
C3_InvalidGivesFallback ==
    (/\ Done("generate_response")
     /\ Answered
     /\ ~YieldsEnvelope(ModelText))
        => (result.exc = "" /\ Env.type # "error" /\ IsFallback(Env))

----------------------------------------------------------------------------
(* C4: a valid envelope object in the reply is returned *)

\* the texts the case is about: the object o with white space around it at
\* most, or prose, a json fence, o, a closing fence, prose, where the prose
\* holds no fence and no value nested too deep
HeldObjects(x) ==
    {strip(x)} \cup
    {strip(SubSeq(x, i + 1, j - 1)) : <<i, j>> \in
        {ij \in (1..Len(x)) \X (1..Len(x)) :
            /\ ij[1] < ij[2]
            /\ x[ij[1]] = "J"
            /\ x[ij[2]] = "F"
            /\ \A k \in (1..(ij[1] - 1)) \cup ((ij[2] + 1)..Len(x)) :
                   x[k] \notin {"J", "F", "T", "D"}}}

\* C4: on status 200 with a model text that is a schema-valid envelope
\* object, alone (up to surrounding white space) or inside a json fenced
\* block surrounded by prose, generate_response returns an envelope whose
\* kind, message and confidence are those of that object.
C4_ValidObjectReturned ==
    (Done("generate_response") /\ Answered) =>
        \A o \in HeldObjects(ModelText) \cap Objects :
            SchemaValid(json_loads(o).dict)
                => /\ result.exc = ""
                   /\ Env.type = json_loads(o).dict.type[1]
                   /\ Env.message = json_loads(o).dict.message[1]
                   /\ Env.confidence = json_loads(o).dict.confidence

\* the object sat in a json fence between prose that itself holds a brace,
\* and came back as an info envelope with message "hi" and confidence 0.9
C4_Witness ==
    /\ Done("generate_response")
    /\ Answered
    /\ ModelText = <<"w", "{", "w", "J", "{", "T_info", "M_hi", "{", "M_ok", "}", "C_90", "}", "F", "w">>
    /\ result.exc = ""
    /\ Env.type = "info" /\ Env.message = "hi" /\ Env.confidence = Some(90)

----------------------------------------------------------------------------
(* C5: a status other than 200 *)

\* C5: on any status other than 200, generate_response returns an envelope
\* of kind error whose error_details is "HTTP <status>: " followed by the
\* first characters of the response body, 200 of them at most (the whole
\* body when it is shorter), and neither the payload nor the model text is
\* parsed.
C5_HttpError ==
    (Done("generate_response") /\ call.net.kind = "http" /\ call.net.status # HTTP_OK) =>
        /\ result.exc = ""
        /\ Env.type = "error"
        /\ Env.error_details # None
        /\ LET details == Env.error_details[1]
               excerpt == SubSeq(details, 4, Len(details))
           IN  /\ Len(details) >= 3
               /\ details[2] = StatusText(call.net.status)
               /\ Len(excerpt) <= 200
               /\ Len(excerpt) <= Len(call.net.body)
               /\ excerpt = SubSeq(call.net.body, 1, Len(excerpt))
               /\ (Len(call.net.body) <= 200 => excerpt = call.net.body)
               /\ (Len(call.net.body) > 200 => Len(excerpt) = 200)
        /\ result.ran \cap {"json", "loads", "extract"} = {}

\* a 500 answer whose body is longer than the excerpt
C5_Witness ==
    /\ Done("generate_response")
    /\ call.net.kind = "http" /\ call.net.status = 500
    /\ Len(call.net.body) > 200
    /\ Env.type = "error"
    /\ Len(Env.error_details[1]) = 203

----------------------------------------------------------------------------
(* C6: timeout and connection error *)

TransportFailures == {"timeout", "connect_timeout", "connection_error"}

\* C6: a timeout and a connection error both give an envelope of kind error
\* with the same suggestion set {retry, check connectivity}; for the
\* connection error the error_details is the error text cut to 200
\* characters at most.
C6_SameSuggestions ==
    (Done("generate_response") /\ call.net.kind \in TransportFailures) =>
        /\ result.exc = ""
        /\ Env.type = "error"
        /\ Env.suggestions # None
        /\ Range(Env.suggestions[1]) = {"try again", "check the internet connection"}
        /\ call.net.kind = "connection_error" =>
              /\ Env.error_details # None
              /\ Len(Env.error_details[1]) <= 200
              /\ Env.error_details[1] = SubSeq(call.net.err, 1, Len(Env.error_details[1]))

\* C6, amended: a timeout and a connection error both give an envelope of
\* kind error whose suggestions include the connectivity check, but the
\* lists differ: a timeout (a connect timeout included) carries (try again,
\* check connectivity), a connection error that is no timeout carries
\* (check connectivity, try later); for that connection error the
\* error_details is the error text, whole when it has 200 characters at
\* most and else its first 200 characters.
C6_TransportErrors ==
    (Done("generate_response") /\ call.net.kind \in TransportFailures) =>
        /\ result.exc = ""
        /\ Env.type = "error"
        /\ Env.suggestions # None
        /\ "check the internet connection" \in Range(Env.suggestions[1])
        /\ call.net.kind \in {"timeout", "connect_timeout"} =>
              Env.suggestions[1] = <<"try again", "check the internet connection">>
        /\ call.net.kind = "connection_error" =>
              /\ Env.suggestions[1] = <<"check the internet connection", "try later">>
              /\ Env.error_details # None
              /\ Len(Env.error_details[1]) <= 200
              /\ Len(Env.error_details[1]) <= Len(call.net.err)
              /\ Env.error_details[1] = SubSeq(call.net.err, 1, Len(Env.error_details[1]))
              /\ (Len(call.net.err) <= 200 => Env.error_details[1] = call.net.err)
              /\ (Len(call.net.err) > 200 => Len(Env.error_details[1]) = 200)

\* a connection error whose text is longer than 200 characters
C6_Witness ==
    /\ Done("generate_response")
    /\ call.net.kind = "connection_error"
    /\ Len(call.net.err) > 200
    /\ Env.type = "error"
    /\ Len(Env.error_details[1]) = 200
    /\ Env.suggestions = Some(<<"check the internet connection", "try later">>)

----------------------------------------------------------------------------
(* C7: test_connection *)

\* C7: test_connection returns the envelope of its inner generate_response
\* call unchanged when that envelope is of kind error; otherwise it returns
\* a new success envelope with the fixed message and confidence 1.0,
\* whatever the kind, message or data of the inner envelope.
C7_Probe ==
    Done("test_connection") =>
        /\ call.inner.exc = ""
        /\ result.exc = ""
        /\ IF call.inner.env[1].type = "error"
           THEN Env = call.inner.env[1]
           ELSE /\ Env.type = "success"
                /\ Env.message = "the connection to YandexGPT works"
                /\ Env.confidence = Some(100)
                /\ Env.timestamp = now
                /\ Env.data = None /\ Env.actions = None
                /\ Env.suggestions = None /\ Env.error_details = None

\* the inner call gave a warning envelope with data and its own message
C7_Witness ==
    /\ Done("test_connection")
    /\ call.inner.exc = ""
    /\ call.inner.env[1].type = "warning"
    /\ call.inner.env[1].message = "hi"
    /\ call.inner.env[1].data # None
    /\ Env.type = "success"
    /\ Env.confidence = Some(100)

----------------------------------------------------------------------------
(* C8: the factories *)

FactoryKind ==
    [create_success |-> "success", create_error |-> "error",
     create_info |-> "info", create_warning |-> "warning"]

FactoryDefault ==
    [create_success |-> 90, create_error |-> 100,
     create_info |-> 80, create_warning |-> 70]

\* C8: each factory builds an envelope of its own kind, with its default
\* confidence (0.9, 1.0, 0.8, 0.7) when the caller supplies none and with
\* exactly the caller's confidence when one, within [0, 1], is supplied.
C8_FactoryConfidence ==
    (/\ pc = "done"
     /\ call.op \in DOMAIN FactoryKind
     /\ call.kw.message # None
     /\ (call.kw.confidence # None => call.kw.confidence[1] \in 0..100)
     /\ IF call.op = "create_error"
        THEN call.kw.data = None /\ call.kw.actions = None
        ELSE call.kw.error_details = None /\ call.kw.suggestions = None)
        => /\ result.exc = ""
           /\ Env.type = FactoryKind[call.op]
           /\ Env.confidence = IF call.kw.confidence = None
                               THEN Some(FactoryDefault[call.op])
                               ELSE call.kw.confidence

----------------------------------------------------------------------------
(* C9: error_details only on error envelopes *)

\* C9: an envelope returned by generate_response carries a non-empty
\* error_details only if its kind is error, envelopes built from the
\* model's JSON included.
C9_DetailsOnlyOnError ==
    (Done("generate_response") /\ result.exc = "") =>
        ((Env.error_details # None /\ Env.error_details[1] # <<>>) => Env.type = "error")

----------------------------------------------------------------------------
(* C10: the timestamp is the construction time *)

\* C10: the timestamp of every envelope returned by generate_response is
\* the time at which the envelope was constructed, also when the model's
\* JSON holds a "timestamp" of its own.
C10_TimestampIsNow ==
    (Done("generate_response") /\ result.exc = "") => Env.timestamp = now

----------------------------------------------------------------------------
(* C13: a payload with a segment of the path missing *)

\* the envelope the same call gives when the payload holds the empty text
EmptyTextOutcome ==
    generate_response(call.user_message,
                      [call.net EXCEPT !.payload = FullPayload(<<>>)], now)

IsUnexpectedError(e) ==
    /\ e.type = "error"
    /\ e.message = "unexpected error in YandexGPT"

\* C13: on status 200, when a segment of the path result, first alternative,
\* message, text is missing from the payload (a key absent, the alternatives
\* list empty, a value null), the model text is the empty string: the call
\* ends with the envelope it gives for an empty model text, not with the
\* generic unexpected-error envelope.
C13_MissingSegmentIsEmptyText ==
    (/\ Done("generate_response")
     /\ call.net.kind = "http"
     /\ call.net.status = HTTP_OK
     /\ call.net.payload \in BrokenPayloads
     /\ call.net.payload.is_json)
        => /\ result.exc = ""
           /\ result.env = EmptyTextOutcome.env
           /\ ~IsUnexpectedError(Env)

----------------------------------------------------------------------------
(* C12: the order of the candidates and the totality of the extractor *)

\* the second pattern as the claim reads it: a fence of any tag opens a
\* match, the bare fence and the fence with a tag other than json (the first
\* pattern has tried the matches of the json fence)
AnyFence == {"F", "T"}

ClaimedCandidates(t) ==
    FencedGroups(t, 1, JsonFence) \o FencedGroups(t, 1, AnyFence) \o BraceSpan(t)

\* the parse of the first candidate that parses; a candidate that fails to
\* parse, for whatever reason, is skipped
RECURSIVE ClaimedResult(_)
ClaimedResult(ms) ==
    IF ms = <<>> THEN Found(None)
    ELSE IF json_loads(strip(Head(ms))).ok
    THEN Found(Some(json_loads(strip(Head(ms))).dict))
    ELSE ClaimedResult(Tail(ms))

\* C12: the extractor tries the json fenced matches, then the fenced matches
\* of any tag, then the greedy brace span; a candidate that fails to parse is
\* skipped, the result is the parse of the first candidate that parses,
\* not-found when none parses, and no input string makes it raise.
C12_OrderedAndTotal ==
    Done("_extract_json_from_text")
        => /\ result.exc = ""
           /\ result = ClaimedResult(ClaimedCandidates(call.text))

----------------------------------------------------------------------------
(* C11: the sections of the rendered text *)

SectionOrder ==
    <<"category", "steps", "solution", "additional_info", "actions",
      "suggestions", "error_details", "confidence", "timestamp">>

\* the envelope that was rendered
Envelope == call.inner.env[1]

\* the sections of the rendered text, after the line of the message
Sections == [i \in 1..(Len(result.text) - 1) |-> result.text[i + 1].section]

KeyPresent(e, key) == e.data # None /\ key \in DOMAIN e.data[1]

NonEmptyList(field) == field # None /\ field[1] # <<>>

\* the field of a section is present, as the claim counts it
FieldPresent(e, section) ==
    CASE section = "steps" ->
            /\ KeyPresent(e, "steps")
            /\ e.data[1]["steps"].json = "array"
            /\ e.data[1]["steps"].items # <<>>
      [] section \in {"category", "solution", "additional_info"} -> KeyPresent(e, section)
      [] section = "actions" -> NonEmptyList(e.actions)
      [] section = "suggestions" -> NonEmptyList(e.suggestions)
      [] section = "error_details" -> e.type = "error" /\ e.error_details # None
      [] section = "confidence" -> e.confidence # None
      [] section = "timestamp" -> TRUE

ClaimedSection(section) == FieldPresent(Envelope, section)

\* C11: the rendered text of an envelope lists its sections in the order
\* category, steps, solution, additional_info, actions, suggestions,
\* error_details, confidence, timestamp; a section is there exactly when its
\* field is present (steps and the two lists only when non-empty,
\* error_details only when the kind is error), and timestamp is the last one.
C11_SectionsInOrder ==
    Done("to_formatted_text")
        => /\ result.exc = ""
           /\ Sections = SelectSeq(SectionOrder, ClaimedSection)
           /\ Sections[Len(Sections)] = "timestamp"

=============================================================================
